---- MODULE Spec2Model ----
(***************************************************************************)
(* Model of the dynamically allocated circular queue of pointers           *)
(* (queue.h / queue.c) of GLES3ComputeLib.                                 *)
(*                                                                         *)
(* A queue_t is a record with the fields of the C structure.  The storage  *)
(* `content` is a function over 0 .. max_size-1.  Pointers are integers:   *)
(* NULL is 0, a pushed element is a positive number, and a slot of a       *)
(* freshly malloc'ed block that was never written holds Uninit.  The float *)
(* policy factors are exact dyadic rationals [num, den].                   *)
(***************************************************************************)
EXTENDS Integers, Sequences, FiniteSets, TLC

VARIABLES queue, init_capacity, hist, last, nresize, nshrink, phase,
          drain, inst, heap

vars == <<queue, init_capacity, hist, last, nresize, nshrink, phase,
          drain, inst, heap>>

(***************************************************************************)
(* Bounds of the model.                                                    *)
(***************************************************************************)
\* largest initial capacity passed to queue_create
MaxCap == 4
\* number of queue_push / queue_pop calls of one run of Spec
MaxOps == 7
\* the hysteresis scenario: elements pushed, and the size it is drained to
HystPushes == 100
HystTarget == 20
\* number of queue_push / queue_pop calls of one run of SpecLarge
MaxLargeOps == 2

\* the messages that pass the verbosity filter, over all library actions
MaxCaptures == 66

\* a compute_lib_init that follows a compute_lib_deinit is explored when at
\* most this many messages were recorded before it
MaxReinit == 0

(***************************************************************************)
(* Constants of the program.                                               *)
(***************************************************************************)
NULL == 0
Uninit == -1
QUEUE_DEFAULT_MIN_SIZE == 16
QUEUE_DEFAULT_FACTOR_EXPANSION == [num |-> 2, den |-> 1]
QUEUE_DEFAULT_FACTOR_REDUCTION == [num |-> 0, den |-> 1]

(***************************************************************************)
(* Float arithmetic of the policy tests.  A float is held as its magnitude *)
(* [man, exp], the value man * 2^exp with man below 2^FloatPrecision: an   *)
(* int converted to float, a product and a quotient are rounded to         *)
(* FloatPrecision significant bits, to nearest, ties to the even mantissa. *)
(* A factor is the float num / den: den is a power of two and num is below *)
(* 2^7, so that every product below stays inside 31 bits.                  *)
(***************************************************************************)
\* the significant bits of a float, and the range of int
FloatPrecision == 24
INT_MAX == 2147483647
INT_MIN == -INT_MAX - 1

\* what the conversion to int of a float outside the range of int yields:
\* the behaviour is undefined; builds yield INT_MIN or saturate
OutOfRangeInts == {INT_MIN, INT_MAX}

\* the number of bits of x >= 0
RECURSIVE BitLen(_)
BitLen(x) == IF x = 0 THEN 0 ELSE 1 + BitLen(x \div 2)

Abs(x) == IF x < 0 THEN -x ELSE x

\* x * 2^e, with 0 <= x < 2^31, rounded to a float; sticky: the value
\* has non-zero bits below those of x
RoundToFloat(x, e, sticky) ==
    IF x < 2^FloatPrecision
    THEN [man |-> x, exp |-> e]
    ELSE
        LET s    == BitLen(x \div 2^FloatPrecision)
            q    == x \div 2^s
            r    == x % 2^s
            half == 2^(s - 1)
            m    == IF r > half \/ (r = half /\ (sticky \/ q % 2 = 1))
                    THEN q + 1 ELSE q
        IN  IF m = 2^FloatPrecision
            THEN [man |-> 2^(FloatPrecision - 1), exp |-> e + s + 1]
            ELSE [man |-> m, exp |-> e + s]

\* (float) n, for n >= 0
IntToFloat(n) == RoundToFloat(n, 0, FALSE)

\* a * f for a float a and a factor f >= 0
FloatMul(a, f) ==
    RoundToFloat(a.man * f.num, a.exp - (BitLen(f.den) - 1), FALSE)

\* a / b for floats a and b > 0: the operands are shifted to
\* FloatPrecision bits, 26 bits of the quotient are computed by long
\* division and rounded
FloatDiv(a, b) ==
    IF a.man = 0 THEN [man |-> 0, exp |-> 0]
    ELSE
        LET sa == FloatPrecision - BitLen(a.man)
            sb == FloatPrecision - BitLen(b.man)
            na == a.man * 2^sa
            nb == b.man * 2^sb
            x1 == na * 2^7
            x2 == (x1 % nb) * 2^7
            x3 == (x2 % nb) * 2^7
            x4 == (x3 % nb) * 2^5
            quot == (((x1 \div nb) * 2^7 + (x2 \div nb)) * 2^7
                      + (x3 \div nb)) * 2^5 + (x4 \div nb)
        IN  RoundToFloat(quot, (a.exp - sa) - (b.exp - sb) - 26,
                         x4 % nb # 0)

\* a < f for a float a and a factor f
FloatLess(a, f) ==
    LET d == a.exp + (BitLen(f.den) - 1)
    IN  IF f.num <= 0 THEN FALSE
        ELSE IF a.man = 0 THEN TRUE
        ELSE IF d >= 0 THEN d <= 7 /\ a.man * 2^d < f.num
        ELSE -d >= FloatPrecision \/ a.man < f.num * 2^(-d)

\* (int) a for a float a of the given sign: the value truncated toward
\* zero, or oor when the value is outside the range of int
FloatToInt(a, sign, oor) ==
    IF a.man = 0 THEN 0
    ELSE IF a.exp <= 0
    THEN IF -a.exp >= FloatPrecision THEN 0
         ELSE sign * (a.man \div 2^(-a.exp))
    ELSE IF a.exp <= 30 /\ a.man < 2^(31 - a.exp)
    THEN sign * (a.man * 2^a.exp)
    ELSE IF sign < 0 /\ a.exp <= 30 /\ a.man = 2^(31 - a.exp)
    THEN INT_MIN
    ELSE oor

\* (int) ((float) n * f): n converted to float, the float product, and
\* its conversion to int; oor is what that conversion yields when the
\* product is outside the range of int
FloatMulToInt(n, f, oor) ==
    FloatToInt(FloatMul(IntToFloat(Abs(n)),
                        [num |-> Abs(f.num), den |-> f.den]),
               IF (n < 0) = (f.num < 0) THEN 1 ELSE -1, oor)

\* ((float) n) / ((float) m) < f, for n >= 0 and m > 0: both operands
\* converted to float, the float quotient, and the comparison; for m = 0
\* the quotient is NaN (0/0, every comparison false) or +Inf (n/0 with
\* n > 0)
FloatRatioLess(n, m, f) ==
    IF m = 0 THEN FALSE
    ELSE FloatLess(FloatDiv(IntToFloat(n), IntToFloat(m)), f)

\* memcpy(&dst[dst_off], &src[src_off], n * sizeof(void*))
memcpy(dst, dst_off, src, src_off, n) ==
    [i \in DOMAIN dst |->
        IF i >= dst_off /\ i < dst_off + n
        THEN src[src_off + (i - dst_off)]
        ELSE dst[i]]

\* malloc(n * sizeof(void*)): a block of n slots with indeterminate contents
malloc_slots(n) == [i \in 0 .. n - 1 |-> Uninit]

(***************************************************************************)
(* queue.c.  A function may be preceded by faulty variants of it: slips    *)
(* that the claims below must be able to tell from the code.               *)
(***************************************************************************)
queue_create(capacity) ==
    [start_pos        |-> 0,
     size             |-> 0,
     max_size         |-> capacity,
     content          |-> malloc_slots(capacity),
     min_size         |-> QUEUE_DEFAULT_MIN_SIZE,
     factor_expansion |-> QUEUE_DEFAULT_FACTOR_EXPANSION,
     factor_reduction |-> QUEUE_DEFAULT_FACTOR_REDUCTION]

\* the storage pointer that a failed malloc leaves in content: no slot
NullContent == << >>

\* what is left of a queue_t that could not be allocated
NoQueue ==
    [queue_create(0) EXCEPT !.content = NullContent]

\* queue_t* queue_create(int capacity) with the outcome of its two mallocs.
\* Neither result is tested.  When the first malloc returns NULL the
\* stores new->start_pos = 0 ... go through NULL: the program traps, or
\* (trap = FALSE) goes on and returns NULL.  When only the second returns
\* NULL the queue is returned with content = NULL and max_size = capacity.
\* outcome: "ok", "fault" (trapped), "wild" (went on after the stores
\* through NULL), "nullcontent".
queue_create_malloc(capacity, header_ok, content_ok, trap) ==
    IF ~header_ok
    THEN [q       |-> NoQueue,
          ret     |-> FALSE,
          outcome |-> IF trap THEN "fault" ELSE "wild"]
    ELSE IF ~content_ok
    THEN [q       |-> [queue_create(capacity) EXCEPT !.content = NullContent],
          ret     |-> TRUE,
          outcome |-> "nullcontent"]
    ELSE [q       |-> queue_create(capacity),
          ret     |-> TRUE,
          outcome |-> "ok"]

\* queue_resize that stores the new capacity before it tests the allocation
queue_resize_early_store(q, new_capacity, alloc_ok) ==
    IF ~alloc_ok
    THEN [q |-> [q EXCEPT !.max_size = new_capacity], ret |-> FALSE]
    ELSE
        LET new_content == malloc_slots(new_capacity)
            elems_from_start == q.max_size - q.start_pos
            copied ==
                IF elems_from_start >= q.size
                THEN memcpy(new_content, 0, q.content, q.start_pos, q.size)
                ELSE memcpy(
                         memcpy(new_content, 0, q.content, q.start_pos,
                                elems_from_start),
                         elems_from_start, q.content, 0,
                         q.size - elems_from_start)
        IN  [q   |-> [q EXCEPT !.content = copied,
                               !.max_size = new_capacity,
                               !.start_pos = 0],
             ret |-> TRUE]

\* queue_resize that copies the first size slots of the old storage, as if
\* the live window started at index 0
queue_resize_plain_copy(q, new_capacity, alloc_ok) ==
    IF ~alloc_ok
    THEN [q |-> q, ret |-> FALSE]
    ELSE [q   |-> [q EXCEPT
                     !.content = memcpy(malloc_slots(new_capacity), 0,
                                        q.content, 0, q.size),
                     !.max_size = new_capacity,
                     !.start_pos = 0],
          ret |-> TRUE]

\* queue_resize that copies the two pieces of a wrapped window in the wrong
\* order: the piece at the front of the old storage first
queue_resize_swapped_pieces(q, new_capacity, alloc_ok) ==
    IF ~alloc_ok
    THEN [q |-> q, ret |-> FALSE]
    ELSE
        LET new_content == malloc_slots(new_capacity)
            elems_from_start == q.max_size - q.start_pos
            copied ==
                IF elems_from_start >= q.size
                THEN memcpy(new_content, 0, q.content, q.start_pos, q.size)
                ELSE memcpy(
                         memcpy(new_content, 0, q.content, 0,
                                q.size - elems_from_start),
                         q.size - elems_from_start, q.content, q.start_pos,
                         elems_from_start)
        IN  [q   |-> [q EXCEPT !.content = copied,
                               !.max_size = new_capacity,
                               !.start_pos = 0],
             ret |-> TRUE]

\* static bool queue_resize(queue_t* queue, int new_capacity); alloc_ok is
\* whether malloc returns a block.  The result is the queue after the call
\* and the value returned.
queue_resize(q, new_capacity, alloc_ok) ==
    IF ~alloc_ok
    THEN [q |-> q, ret |-> FALSE]
    ELSE
        LET new_content == malloc_slots(new_capacity)
            elems_from_start == q.max_size - q.start_pos
            copied ==
                IF elems_from_start >= q.size
                THEN memcpy(new_content, 0, q.content, q.start_pos, q.size)
                ELSE memcpy(
                         memcpy(new_content, 0, q.content, q.start_pos,
                                elems_from_start),
                         elems_from_start, q.content, 0,
                         q.size - elems_from_start)
        IN  [q   |-> [q EXCEPT !.content = copied,
                               !.max_size = new_capacity,
                               !.start_pos = 0],
             ret |-> TRUE]

\* queue_push that never grows the storage: a full queue is overwritten
queue_push_no_grow(q, data, alloc_ok, oor) ==
    [q   |-> [q EXCEPT
                !.content[(q.start_pos + q.size) % q.max_size] = data,
                !.size = q.size + 1],
     ret |-> TRUE]

\* queue_push that stores at index size, without the offset start_pos
queue_push_no_start(q, data, alloc_ok, oor) ==
    LET new_capacity == FloatMulToInt(q.size, q.factor_expansion, oor)
        grown ==
            IF q.size = q.max_size
            THEN IF new_capacity <= q.max_size
                 THEN [q |-> q, ret |-> FALSE]
                 ELSE queue_resize(q, new_capacity, alloc_ok)
            ELSE [q |-> q, ret |-> TRUE]
        g == grown.q
    IN  IF ~grown.ret
        THEN [q |-> q, ret |-> FALSE]
        ELSE [q   |-> [g EXCEPT !.content[g.size % g.max_size] = data,
                                !.size = g.size + 1],
              ret |-> TRUE]

\* bool queue_push(queue_t* queue, void* data)
queue_push(q, data, alloc_ok, oor) ==
    LET new_capacity == FloatMulToInt(q.size, q.factor_expansion, oor)
        grown ==
            IF q.size = q.max_size
            THEN IF new_capacity <= q.max_size
                 THEN [q |-> q, ret |-> FALSE]
                 ELSE queue_resize(q, new_capacity, alloc_ok)
            ELSE [q |-> q, ret |-> TRUE]
        g == grown.q
    IN  IF ~grown.ret
        THEN [q |-> q, ret |-> FALSE]
        ELSE [q   |-> [g EXCEPT
                         !.content[(g.start_pos + g.size) % g.max_size] = data,
                         !.size = g.size + 1],
              ret |-> TRUE]

\* queue_pop that hands out the newest element instead of the oldest
queue_pop_newest(q, alloc_ok) ==
    IF q.size > 0
    THEN [q   |-> [q EXCEPT !.size = q.size - 1],
          ret |-> q.content[(q.start_pos + q.size - 1) % q.max_size]]
    ELSE [q |-> q, ret |-> NULL]

\* queue_pop that shrinks whenever size >= min_size, without the test of
\* the reduction factor
queue_pop_eager_shrink(q, alloc_ok) ==
    IF q.size > 0
    THEN
        LET elem == q.content[q.start_pos]
            p == [q EXCEPT !.start_pos = (q.start_pos + 1) % q.max_size,
                           !.size = q.size - 1]
            shrunk ==
                IF p.size >= p.min_size
                THEN queue_resize(p, p.size, alloc_ok).q
                ELSE p
        IN  [q |-> shrunk, ret |-> elem]
    ELSE [q |-> q, ret |-> NULL]

\* queue_pop that advances start_pos before it tests for an empty queue
queue_pop_advance_first(q, alloc_ok) ==
    LET a == IF q.max_size > 0
             THEN [q EXCEPT !.start_pos = (q.start_pos + 1) % q.max_size]
             ELSE q
    IN  IF q.size > 0
        THEN
            LET elem == q.content[q.start_pos]
                p == [a EXCEPT !.size = q.size - 1]
                shrunk ==
                    IF p.size >= p.min_size
                       /\ FloatRatioLess(p.size, p.max_size,
                                         p.factor_reduction)
                    THEN queue_resize(p, p.size, alloc_ok).q
                    ELSE p
            IN  [q |-> shrunk, ret |-> elem]
        ELSE [q |-> a, ret |-> NULL]

\* queue_pop with a fixed threshold of one half in place of factor_reduction
queue_pop_fixed_threshold(q, alloc_ok) ==
    IF q.size > 0
    THEN
        LET elem == q.content[q.start_pos]
            p == [q EXCEPT !.start_pos = (q.start_pos + 1) % q.max_size,
                           !.size = q.size - 1]
            shrunk ==
                IF p.size >= p.min_size /\ 2 * p.size < p.max_size
                THEN queue_resize(p, p.size, alloc_ok).q
                ELSE p
        IN  [q |-> shrunk, ret |-> elem]
    ELSE [q |-> q, ret |-> NULL]

\* queue_pop that does not advance start_pos
queue_pop_no_advance(q, alloc_ok) ==
    IF q.size > 0
    THEN
        LET elem == q.content[q.start_pos]
            p == [q EXCEPT !.size = q.size - 1]
            shrunk ==
                IF p.size >= p.min_size
                   /\ FloatRatioLess(p.size, p.max_size, p.factor_reduction)
                THEN queue_resize(p, p.size, alloc_ok).q
                ELSE p
        IN  [q |-> shrunk, ret |-> elem]
    ELSE [q |-> q, ret |-> NULL]

\* queue_pop that gives up and returns NULL when the shrinking resize fails
queue_pop_fail_on_shrink(q, alloc_ok) ==
    IF q.size > 0
    THEN
        LET elem == q.content[q.start_pos]
            p == [q EXCEPT !.start_pos = (q.start_pos + 1) % q.max_size,
                           !.size = q.size - 1]
        IN  IF p.size >= p.min_size
               /\ FloatRatioLess(p.size, p.max_size, p.factor_reduction)
            THEN LET r == queue_resize(p, p.size, alloc_ok)
                 IN  [q |-> r.q, ret |-> IF r.ret THEN elem ELSE NULL]
            ELSE [q |-> p, ret |-> elem]
    ELSE [q |-> q, ret |-> NULL]

\* queue_pop that shrinks without the test of min_size
queue_pop_no_floor(q, alloc_ok) ==
    IF q.size > 0
    THEN
        LET elem == q.content[q.start_pos]
            p == [q EXCEPT !.start_pos = (q.start_pos + 1) % q.max_size,
                           !.size = q.size - 1]
            shrunk ==
                IF FloatRatioLess(p.size, p.max_size, p.factor_reduction)
                THEN queue_resize(p, p.size, alloc_ok).q
                ELSE p
        IN  [q |-> shrunk, ret |-> elem]
    ELSE [q |-> q, ret |-> NULL]

\* void* queue_pop(queue_t* queue)
queue_pop(q, alloc_ok) ==
    IF q.size > 0
    THEN
        LET elem == q.content[q.start_pos]
            p == [q EXCEPT !.start_pos = (q.start_pos + 1) % q.max_size,
                           !.size = q.size - 1]
            shrunk ==
                IF p.size >= p.min_size
                   /\ FloatRatioLess(p.size, p.max_size, p.factor_reduction)
                THEN queue_resize(p, p.size, alloc_ok).q
                ELSE p
        IN  [q |-> shrunk, ret |-> elem]
    ELSE [q |-> q, ret |-> NULL]

\* queue_get that accepts the index size
queue_get_off_by_one(q, i) ==
    IF i >= 0 /\ i <= q.size /\ q.max_size > 0
    THEN q.content[(q.start_pos + i) % q.max_size]
    ELSE NULL

\* void* queue_get(queue_t* queue, int i)
queue_get(q, i) ==
    IF i >= 0 /\ i < q.size
    THEN q.content[(q.start_pos + i) % q.max_size]
    ELSE NULL

\* The slots of the storage of q that each function reads.
\* queue_resize: the source ranges of its memcpy calls
queue_resize_reads(q, alloc_ok) ==
    LET elems_from_start == q.max_size - q.start_pos
    IN  IF ~alloc_ok THEN {}
        ELSE IF elems_from_start >= q.size
        THEN q.start_pos .. q.start_pos + q.size - 1
        ELSE (q.start_pos .. q.start_pos + elems_from_start - 1)
             \cup (0 .. q.size - elems_from_start - 1)

\* queue_push: the reads of the resize that grows a full queue
queue_push_reads(q, alloc_ok, oor) ==
    IF q.size = q.max_size
       /\ ~(FloatMulToInt(q.size, q.factor_expansion, oor) <= q.max_size)
    THEN queue_resize_reads(q, alloc_ok)
    ELSE {}

\* queue_pop: the head slot, then the reads of the resize that shrinks
queue_pop_reads(q, alloc_ok) ==
    IF q.size > 0
    THEN
        LET p == [q EXCEPT !.start_pos = (q.start_pos + 1) % q.max_size,
                           !.size = q.size - 1]
        IN  {q.start_pos}
            \cup IF p.size >= p.min_size
                    /\ FloatRatioLess(p.size, p.max_size,
                                      p.factor_reduction)
                 THEN queue_resize_reads(p, alloc_ok)
                 ELSE {}
    ELSE {}

\* queue_get: the slot of the i-th live element
queue_get_reads(q, i) ==
    IF i >= 0 /\ i < q.size
    THEN {(q.start_pos + i) % q.max_size}
    ELSE {}

(***************************************************************************)
(* compute_lib.h: the library instance.  A pointer to a queue_t or to a    *)
(* compute_lib_error_t is NULL or a positive number.                       *)
(***************************************************************************)
\* gl3_utils.h
GL_DEBUG_SEVERITY_HIGH == 37190
GL_DEBUG_SEVERITY_MEDIUM == 37191
GL_DEBUG_SEVERITY_LOW == 37192
GL_DEBUG_SEVERITY_NOTIFICATION == 33387

\* enum compute_lib_error_t codes returned by compute_lib_init; the caller
\* compares the value returned with 0
COMPUTE_LIB_ERROR_NO_ERROR == 0
COMPUTE_LIB_ERROR_ALREADY_INITIALISED == -101
COMPUTE_LIB_ERROR_GPU_DRI_PATH == -102
COMPUTE_LIB_ERROR_EGL_MAKE_CURRENT == -111

\* inst->error_queue = queue_create(64)
ERROR_QUEUE_CAPACITY == 64

\* #define COMPUTE_LIB_INSTANCE_NEW(dri_path_)
COMPUTE_LIB_INSTANCE_NEW ==
    [initialised |-> FALSE, last_error |-> NULL, error_total_cnt |-> 0,
     error_queue |-> NULL, verbosity |-> 3]

\* no compute_lib_error_t was allocated and no queue_t was handed to an
\* instance
NoHeap == [errs |-> << >>, queue_t |-> "none"]

\* no compute_lib_error_queue_flush was made
NoDrain == [live |-> << >>, got |-> << >>, calls |-> 0]

(***************************************************************************)
(* The callers of the queue.                                               *)
(*                                                                         *)
(* queue : the queue_t                                                     *)
(* init_capacity : the capacity passed to queue_create                     *)
(* hist  : the queue_push / queue_pop calls made so far, each with its     *)
(*         argument, its return value and whether it resized the storage   *)
(* last  : the last call made (queue_get included), with whether a malloc  *)
(*         of the call failed                                              *)
(* nresize, nshrink : successful resizes so far, and those made by pops    *)
(* phase : "free" for arbitrary callers, "fill" / "drain" for the          *)
(*         fill-then-drain scenario, "large" for queues of large capacity, *)
(*         "fault" after an access through an invalid pointer              *)
(* drain : the last compute_lib_error_queue_flush: the live elements when  *)
(*         it began, the elements it received and the queue_pop calls it   *)
(*         made                                                            *)
(* inst  : the compute_lib_instance_t                                      *)
(* heap  : the compute_lib_error_t records allocated so far, each with its *)
(*         err_id and the number of times it was freed, and the state of   *)
(*         the queue_t of the instance                                     *)
(***************************************************************************)
\* values of the policy fields a caller may store into the structure
MinSizes == {0, 1, 2, QUEUE_DEFAULT_MIN_SIZE}
Expansions ==
    {QUEUE_DEFAULT_FACTOR_EXPANSION, [num |-> 1, den |-> 1],
     [num |-> 3, den |-> 2], [num |-> 1, den |-> 2]}
Reductions ==
    {QUEUE_DEFAULT_FACTOR_REDUCTION, [num |-> 1, den |-> 4],
     [num |-> 1, den |-> 2], [num |-> 1, den |-> 1]}
Policies ==
    [min_size : MinSizes, factor_expansion : Expansions,
     factor_reduction : Reductions]

\* the outcomes the out-of-range conversion of a queue_push into q is drawn
\* from: the conversion is made only when q is full
Conversions(q) ==
    IF q.size = q.max_size THEN OutOfRangeInts ELSE {INT_MIN}

\* the pointers a caller pushes: the k-th queue_push call passes k
PushCalls == {i \in DOMAIN hist : hist[i].op = "push"}
NextElem == Cardinality(PushCalls) + 1

\* what a read that yields v shows: an indeterminate value is any pointer
Pointers == 0 .. MaxOps + 1
Observed(v) == IF v = Uninit THEN Pointers ELSE {v}

Call(op, arg, ret, before, after, allocfail) ==
    [op |-> op, arg |-> arg, ret |-> ret,
     resized |-> after.max_size # before.max_size,
     allocfail |-> allocfail]

Init ==
    /\ init_capacity \in 1 .. MaxCap
    /\ queue = queue_create(init_capacity)
    /\ last = Call("create", init_capacity, TRUE, queue, queue, FALSE)
    /\ hist = << >>
    /\ nresize = 0
    /\ nshrink = 0
    /\ phase = "free"
    /\ drain = NoDrain
    /\ inst = COMPUTE_LIB_INSTANCE_NEW
    /\ heap = NoHeap

\* the caller stores a policy into the fields of a new queue
SetPolicy(p) ==
    /\ phase = "free"
    /\ last.op = "create"
    /\ queue' = [queue EXCEPT !.min_size = p.min_size,
                              !.factor_expansion = p.factor_expansion,
                              !.factor_reduction = p.factor_reduction]
    /\ last' = Call("config", NULL, TRUE, queue, queue, FALSE)
    /\ UNCHANGED <<init_capacity, hist, nresize, nshrink, phase,
                 drain, inst, heap>>

Push(alloc_ok, oor) ==
    /\ phase = "free"
    /\ Len(hist) < MaxOps
    /\ LET data == NextElem
           r == queue_push(queue, data, alloc_ok, oor)
           c == Call("push", data, r.ret, queue, r.q,
                     ~alloc_ok /\ queue_push(queue, data, TRUE,
                                                oor).q.max_size
                                     # queue.max_size)
       IN  /\ queue' = r.q
           /\ last' = c
           /\ hist' = Append(hist, c)
           /\ nresize' = IF c.resized THEN nresize + 1 ELSE nresize
    /\ UNCHANGED <<init_capacity, nshrink, phase,
                 drain, inst, heap>>

Pop(alloc_ok) ==
    /\ phase = "free"
    /\ Len(hist) < MaxOps
    /\ LET r == queue_pop(queue, alloc_ok) IN
       \E v \in Observed(r.ret) :
          LET c == Call("pop", NULL, v, queue, r.q,
                        ~alloc_ok /\ queue_pop(queue, TRUE).q.max_size
                                        # queue.max_size)
          IN  /\ queue' = r.q
              /\ last' = c
              /\ hist' = Append(hist, c)
              /\ nresize' = IF c.resized THEN nresize + 1 ELSE nresize
              /\ nshrink' = IF c.resized THEN nshrink + 1 ELSE nshrink
    /\ UNCHANGED <<init_capacity, phase,
                 drain, inst, heap>>

\* a queue_get that removes the element it returns when it is the oldest
Get_take(i) ==
    /\ phase = "free"
    /\ \E v \in Observed(queue_get(queue, i)) :
          last' = Call("get", i, v, queue, queue, FALSE)
    /\ queue' = IF i = 0 /\ queue.size > 0
                THEN queue_pop(queue, FALSE).q
                ELSE queue
    /\ UNCHANGED <<init_capacity, hist, nresize, nshrink, phase,
                 drain, inst, heap>>

Get(i) ==
    /\ phase = "free"
    /\ \E v \in Observed(queue_get(queue, i)) :
          last' = Call("get", i, v, queue, queue, FALSE)
    /\ UNCHANGED <<queue, init_capacity, hist, nresize, nshrink, phase,
                 drain, inst, heap>>

Next ==
    \/ \E p \in Policies : SetPolicy(p)
    \/ \E alloc_ok \in BOOLEAN, oor \in Conversions(queue) :
          Push(alloc_ok, oor)
    \/ \E alloc_ok \in BOOLEAN : Pop(alloc_ok)
    \/ \E i \in -1 .. queue.size + 1 : Get(i)

Spec == Init /\ [][Next]_vars

(***************************************************************************)
(* The fill-then-drain scenario: a queue with reduction factor 0.25 and    *)
(* the default min_size and expansion factor is filled with HystPushes     *)
(* elements and then popped down to HystTarget elements.                   *)
(***************************************************************************)
HystReduction == [num |-> 1, den |-> 4]
HystCaps == {1, 4, QUEUE_DEFAULT_MIN_SIZE, 64, 128, 512}

InitHyst ==
    /\ init_capacity \in HystCaps
    /\ queue = [queue_create(init_capacity) EXCEPT
                   !.factor_reduction = HystReduction]
    /\ last = Call("create", init_capacity, TRUE, queue, queue, FALSE)
    /\ hist = << >>
    /\ nresize = 0
    /\ nshrink = 0
    /\ phase = "fill"
    /\ drain = NoDrain
    /\ inst = COMPUTE_LIB_INSTANCE_NEW
    /\ heap = NoHeap

HystPush(alloc_ok, oor) ==
    /\ phase = "fill"
    /\ queue.size < HystPushes
    /\ LET data == queue.size + 1
           r == queue_push(queue, data, alloc_ok, oor)
           c == Call("push", data, r.ret, queue, r.q,
                     ~alloc_ok /\ queue_push(queue, data, TRUE,
                                                oor).q.max_size
                                     # queue.max_size)
       IN  /\ queue' = r.q
           /\ last' = c
           /\ nresize' = IF c.resized THEN nresize + 1 ELSE nresize
           /\ phase' = IF r.q.size = HystPushes THEN "drain" ELSE "fill"
    /\ UNCHANGED <<init_capacity, hist, nshrink,
                 drain, inst, heap>>

HystPop(alloc_ok) ==
    /\ phase = "drain"
    /\ queue.size > HystTarget
    /\ LET r == queue_pop(queue, alloc_ok) IN
       \E v \in Observed(r.ret) :
          LET c == Call("pop", NULL, v, queue, r.q,
                        ~alloc_ok /\ queue_pop(queue, TRUE).q.max_size
                                        # queue.max_size)
          IN  /\ queue' = r.q
              /\ last' = c
              /\ nresize' = IF c.resized THEN nresize + 1 ELSE nresize
              /\ nshrink' = IF c.resized THEN nshrink + 1 ELSE nshrink
    /\ UNCHANGED <<init_capacity, hist, phase,
                 drain, inst, heap>>

NextHyst ==
    \/ \E alloc_ok \in BOOLEAN, oor \in Conversions(queue) :
          HystPush(alloc_ok, oor)
    \/ \E alloc_ok \in BOOLEAN : HystPop(alloc_ok)

SpecHyst == InitHyst /\ [][NextHyst]_vars

(***************************************************************************)
(* Queues of large capacity.  Above 2^24 elements (float) size is rounded, *)
(* and from 2^30 elements on the product with the expansion factor leaves  *)
(* the range of int.  The storage of such a queue is not represented: the  *)
(* queue is the record of its other fields, and the operators below are    *)
(* queue_resize, queue_push and queue_pop on these fields.                 *)
(***************************************************************************)
\* queue_resize: the fields it leaves and the value it returns
queue_resize_fields(q, new_capacity, alloc_ok) ==
    IF ~alloc_ok
    THEN [q |-> q, ret |-> FALSE]
    ELSE [q   |-> [q EXCEPT !.max_size = new_capacity, !.start_pos = 0],
          ret |-> TRUE]

\* queue_push: the fields it leaves and the value it returns
queue_push_fields(q, alloc_ok, oor) ==
    LET new_capacity == FloatMulToInt(q.size, q.factor_expansion, oor)
        grown ==
            IF q.size = q.max_size
            THEN IF new_capacity <= q.max_size
                 THEN [q |-> q, ret |-> FALSE]
                 ELSE queue_resize_fields(q, new_capacity, alloc_ok)
            ELSE [q |-> q, ret |-> TRUE]
    IN  IF ~grown.ret
        THEN [q |-> q, ret |-> FALSE]
        ELSE [q |-> [grown.q EXCEPT !.size = @ + 1], ret |-> TRUE]

\* queue_pop: the fields it leaves, and whether it returns an element
queue_pop_fields(q, alloc_ok) ==
    IF q.size > 0
    THEN
        LET p == [q EXCEPT !.start_pos = (q.start_pos + 1) % q.max_size,
                           !.size = q.size - 1]
            shrunk ==
                IF p.size >= p.min_size
                   /\ FloatRatioLess(p.size, p.max_size, p.factor_reduction)
                THEN queue_resize_fields(p, p.size, alloc_ok).q
                ELSE p
        IN  [q |-> shrunk, ret |-> TRUE]
    ELSE [q |-> q, ret |-> FALSE]

\* capacities passed to queue_create, and the pushes made into the new
\* queue of capacity c before the calls that are followed
LargeCaps ==
    {2^FloatPrecision + 1, 2^FloatPrecision + 3, 2^(FloatPrecision + 1) + 1,
     2^30 - 1, 2^30}
LargeSizes(c) == {n \in LargeCaps \cup {c - 1} : n <= c}

\* a queue of capacity init_capacity with a policy stored into it, after
\* the pushes that brought it to its size: none of them resized
InitLarge ==
    /\ init_capacity \in LargeCaps
    /\ \E n \in LargeSizes(init_capacity), p \in Policies :
          queue = [start_pos        |-> 0,
                   size             |-> n,
                   max_size         |-> init_capacity,
                   min_size         |-> p.min_size,
                   factor_expansion |-> p.factor_expansion,
                   factor_reduction |-> p.factor_reduction]
    /\ last = Call("fill", queue.size, TRUE, queue, queue, FALSE)
    /\ hist = << >>
    /\ nresize = 0
    /\ nshrink = 0
    /\ phase = "large"
    /\ drain = NoDrain
    /\ inst = COMPUTE_LIB_INSTANCE_NEW
    /\ heap = NoHeap

LargePush(alloc_ok, oor) ==
    /\ phase = "large"
    /\ Len(hist) < MaxLargeOps
    /\ LET r == queue_push_fields(queue, alloc_ok, oor)
           c == Call("push", NextElem, r.ret, queue, r.q,
                     ~alloc_ok /\ queue_push_fields(queue, TRUE,
                                                    oor).q.max_size
                                     # queue.max_size)
       IN  /\ queue' = r.q
           /\ last' = c
           /\ hist' = Append(hist, c)
           /\ nresize' = IF c.resized THEN nresize + 1 ELSE nresize
    /\ UNCHANGED <<init_capacity, nshrink, phase,
                 drain, inst, heap>>

LargePop(alloc_ok) ==
    /\ phase = "large"
    /\ Len(hist) < MaxLargeOps
    /\ LET r == queue_pop_fields(queue, alloc_ok)
           c == Call("pop", NULL, r.ret, queue, r.q,
                     ~alloc_ok /\ queue_pop_fields(queue, TRUE).q.max_size
                                     # queue.max_size)
       IN  /\ queue' = r.q
           /\ last' = c
           /\ hist' = Append(hist, c)
           /\ nresize' = IF c.resized THEN nresize + 1 ELSE nresize
           /\ nshrink' = IF c.resized THEN nshrink + 1 ELSE nshrink
    /\ UNCHANGED <<init_capacity, phase,
                 drain, inst, heap>>

NextLarge ==
    \/ \E alloc_ok \in BOOLEAN, oor \in Conversions(queue) :
          LargePush(alloc_ok, oor)
    \/ \E alloc_ok \in BOOLEAN : LargePop(alloc_ok)

SpecLarge == InitLarge /\ [][NextLarge]_vars

(***************************************************************************)
(* Notions the claims are stated with.                                     *)
(***************************************************************************)
DefaultPolicy ==
    /\ queue.min_size = QUEUE_DEFAULT_MIN_SIZE
    /\ queue.factor_expansion = QUEUE_DEFAULT_FACTOR_EXPANSION
    /\ queue.factor_reduction = QUEUE_DEFAULT_FACTOR_REDUCTION

\* the live window of q as a sequence, oldest element first
Live(q) ==
    [k \in 1 .. q.size |-> q.content[(q.start_pos + k - 1) % q.max_size]]

\* the abstract FIFO after the calls h: a successful push appends its
\* argument, a pop removes the head if there is one
RECURSIVE Fifo(_)
Fifo(h) ==
    IF h = << >> THEN << >>
    ELSE LET f == Fifo(SubSeq(h, 1, Len(h) - 1))
             e == h[Len(h)]
         IN  IF e.op = "push"
             THEN IF e.ret THEN Append(f, e.arg) ELSE f
             ELSE IF f = << >> THEN f ELSE Tail(f)

FifoBefore(k) == Fifo(SubSeq(hist, 1, k - 1))

\* the first n calls of hist are pushes that succeeded and the rest are pops
PushesThenPops(n) ==
    /\ n <= Len(hist)
    /\ \A k \in 1 .. n : hist[k].op = "push" /\ hist[k].ret
    /\ \A k \in n + 1 .. Len(hist) : hist[k].op = "pop"

OnlyPushes == \A k \in DOMAIN hist : hist[k].op = "push"

(***************************************************************************)
(* The claims.                                                             *)
(***************************************************************************)
\* C1: FIFO order.  Under the default policy, when e1..en were pushed
\* (every push succeeding, growth included) and then m <= n pops were made,
\* the pops returned e1..em in that order; with m = n all of e1..en.
C1_FifoOrder ==
    DefaultPolicy =>
        \A n \in 0 .. Len(hist) :
            (PushesThenPops(n) /\ Len(hist) <= 2 * n) =>
                \A k \in 1 .. Len(hist) - n : hist[n + k].ret = hist[k].arg

C1_Witness ==
    /\ DefaultPolicy
    /\ init_capacity = 1
    /\ Len(hist) = 6
    /\ PushesThenPops(3)
    /\ nresize = 2
    /\ hist[6].ret = 3

\* C2: in every state reachable by pushes, pops and gets, whatever the
\* policy values and whether or not allocations fail, 0 <= size <= max_size.
C2_SizeWithinCapacity ==
    /\ 0 <= queue.size
    /\ queue.size <= queue.max_size

C2_Witness ==
    /\ ~DefaultPolicy
    /\ \E k \in DOMAIN hist : hist[k].op = "push" /\ hist[k].resized
    /\ \E k \in DOMAIN hist : hist[k].allocfail
    /\ last.op = "pop" /\ last.resized
    /\ queue.size = queue.max_size
    /\ queue.size >= 1

\* C3: under the default policy, once at least one resize has occurred,
\* max_size >= min_size.
C3_MinSizeAfterResize ==
    (DefaultPolicy /\ nresize >= 1) => queue.max_size >= queue.min_size

\* C4: round trip under resize.  Under the default policy, a new queue of
\* capacity init_capacity >= 1 that init_capacity pushes have filled takes
\* one more push: memory permitting the push succeeds and is the one
\* resize, the queue then holds init_capacity + 1 elements, and
\* queue_get(q, i) is the i-th pushed element for every i.
C4_RoundTripUnderResize ==
    [][(/\ DefaultPolicy
        /\ OnlyPushes
        /\ nresize = 0
        /\ queue.max_size = init_capacity
        /\ queue.size = init_capacity
        /\ Len(hist') # Len(hist)
        /\ last'.op = "push"
        /\ ~last'.allocfail)
       => /\ last'.ret
          /\ last'.resized
          /\ queue'.size = init_capacity + 1
          /\ Len(hist') = init_capacity + 1 =>
               \A i \in 0 .. init_capacity :
                  queue_get(queue', i) = hist'[i + 1].arg]_vars

\* the expansion factor is at most 1.0
StaticCapacity == queue.factor_expansion.num <= queue.factor_expansion.den

\* C5: static-capacity mode.  With an expansion factor <= 1.0 the pushes
\* into a new queue of capacity init_capacity succeed until the queue holds
\* init_capacity elements, and every further push fails, whether or not
\* memory is available, and leaves size, start_pos, max_size and the
\* storage as they were before it.
C5_StaticCapacity ==
    [][(/\ StaticCapacity
        /\ OnlyPushes
        /\ nresize = 0
        /\ queue.max_size = init_capacity
        /\ Len(hist') # Len(hist)
        /\ last'.op = "push")
       => IF queue.size < init_capacity
          THEN /\ last'.ret
               /\ queue'.size = queue.size + 1
               /\ queue'.max_size = init_capacity
               /\ queue'.start_pos = queue.start_pos
          ELSE ~last'.ret /\ queue' = queue]_vars

\* C6: boundary results.  queue_pop as the first call on a new queue
\* returns NULL; on a queue of size >= 1, queue_get(q, size) and
\* queue_get(q, -1) return NULL and queue_get(q, i) with 0 <= i < size
\* returns the element at logical offset i from start_pos, which is the
\* i-th oldest element queued.
C6_Boundaries ==
    /\ (Len(hist) = 1 /\ hist[1].op = "pop") => hist[1].ret = NULL
    /\ (last.op = "get" /\ queue.size >= 1) =>
          /\ (last.arg = queue.size \/ last.arg = -1) => last.ret = NULL
          /\ (0 <= last.arg /\ last.arg < queue.size) =>
                /\ last.ret =
                     queue.content[(queue.start_pos + last.arg)
                                       % queue.max_size]
                /\ last.ret = Fifo(hist)[last.arg + 1]

C6_Witness ==
    /\ last.op = "get"
    /\ queue.size = 2
    /\ last.arg = 1
    /\ queue.start_pos + last.arg >= queue.max_size
    /\ last.ret = 4

\* every push was called with fewer than init_capacity elements queued
NeverOver ==
    \A k \in DOMAIN hist :
        hist[k].op = "push" => Len(FifoBefore(k)) < init_capacity

\* every pop returned the oldest element queued, or NULL from an empty queue
PopsFifo ==
    \A k \in DOMAIN hist :
        hist[k].op = "pop" =>
            hist[k].ret = (IF FifoBefore(k) = << >> THEN NULL
                           ELSE Head(FifoBefore(k)))

\* push(a), push(b), pop, push(c), pop, pop, pop
Interleaving ==
    /\ Len(hist) = 7
    /\ \A k \in {1, 2, 4} : hist[k].op = "push"
    /\ \A k \in {3, 5, 6, 7} : hist[k].op = "pop"

\* no resize was made, the pushes succeeded and the pops were in FIFO
\* order; the interleaving above yielded a, b, c, NULL
WrapsWithoutResize ==
    /\ nresize = 0
    /\ queue.max_size = init_capacity
    /\ \A k \in DOMAIN hist : hist[k].op = "push" => hist[k].ret
    /\ PopsFifo
    /\ Interleaving =>
          /\ hist[3].ret = hist[1].arg
          /\ hist[5].ret = hist[2].arg
          /\ hist[6].ret = hist[4].arg
          /\ hist[7].ret = NULL

\* C7 as stated: whatever the policy, an interleaving of pushes and pops
\* whose occupancy never exceeds the capacity makes no resize and is FIFO.
C7_AnyPolicy == NeverOver => WrapsWithoutResize

\* C7: wraparound without resize.  With the reduction factor 0.0 (no
\* shrinking, the default), an interleaving of pushes and pops whose
\* occupancy never exceeds the capacity makes no resize, max_size stays the
\* capacity, and the pops return the elements in FIFO order also after
\* start_pos and the insertion index have wrapped; push(a), push(b), pop,
\* push(c), pop, pop, pop yields a, b, c, NULL.
C7_WrapNoResize ==
    (queue.factor_reduction.num = 0 /\ NeverOver) => WrapsWithoutResize

C7_Witness ==
    /\ queue.factor_reduction.num = 0
    /\ init_capacity = 2
    /\ Interleaving
    /\ NeverOver
    /\ <<hist[3].ret, hist[5].ret, hist[6].ret, hist[7].ret>>
           = <<1, 2, 3, NULL>>
    /\ queue.start_pos = 1
    /\ queue.max_size = 2

\* the largest k with 2^k <= n, for n >= 1
RECURSIVE Log2(_)
Log2(n) == IF n <= 1 THEN 0 ELSE 1 + Log2(n \div 2)

\* C8: shrink hysteresis.  With reduction factor 0.25 and min_size 16,
\* while HystPushes elements are popped down to HystTarget, max_size is
\* never below min_size nor below the number of live elements, the number
\* of resizes of the drain is at most log2 of the number of elements, and
\* no two consecutive pops both resize.
C8_ShrinkHysteresis ==
    /\ [](phase = "drain" =>
            /\ queue.max_size >= queue.min_size
            /\ queue.max_size >= queue.size
            /\ nshrink <= Log2(HystPushes))
    /\ [][(/\ phase = "drain"
           /\ last.op = "pop" /\ last.resized
           /\ last'.op = "pop")
          => ~last'.resized]_vars

C8_Witness ==
    /\ phase = "drain"
    /\ queue.factor_reduction = [num |-> 1, den |-> 4]
    /\ queue.min_size = 16
    /\ queue.size = HystTarget
    /\ nshrink = 2
    /\ queue.max_size < HystPushes

\* C9: ordinary failures do not change the queue.  A queue_push that
\* returns false, a queue_pop of an empty queue and a queue_get with an
\* index outside [0, size) each leave every field of the queue (start_pos,
\* size, max_size, the policy fields, the storage) as it was.
C9_FailuresChangeNothing ==
    [][(\/ last'.op = "push" /\ ~last'.ret
        \/ last'.op = "pop" /\ queue.size = 0
        \/ last'.op = "get" /\ (last'.arg < 0 \/ last'.arg >= queue.size))
       => queue' = queue]_vars

C9_Witness ==
    /\ last.op = "push"
    /\ ~last.ret
    /\ last.allocfail
    /\ queue.size = 2
    /\ queue.start_pos = 1
    /\ Live(queue) = <<2, 3>>

\* the storage, start_pos and max_size fit together and the live window
\* holds the elements queued, oldest first
Consistent ==
    /\ DOMAIN queue.content = 0 .. queue.max_size - 1
    /\ queue.max_size > 0 => queue.start_pos \in 0 .. queue.max_size - 1
    /\ Live(queue) = Fifo(hist)

\* C10: resize is all-or-nothing.  A queue_push whose allocation fails
\* returns false and leaves the whole queue as it was; a queue_push that
\* resizes leaves start_pos 0, a storage of the new capacity and the old
\* live elements in order followed by the new one.  No partially updated
\* state is reachable, and the pops made afterwards return the elements in
\* FIFO order.
C10_ResizeAllOrNothing ==
    /\ [](Consistent /\ PopsFifo)
    /\ [][(Len(hist') # Len(hist) /\ last'.op = "push" /\ last'.allocfail)
          => (~last'.ret /\ queue' = queue)]_vars
    /\ [][(Len(hist') # Len(hist) /\ last'.op = "push" /\ last'.resized)
          => /\ last'.ret
             /\ queue'.start_pos = 0
             /\ \A oor \in OutOfRangeInts :
                    queue'.max_size
                        = FloatMulToInt(queue.size, queue.factor_expansion,
                                        oor)
             /\ Live(queue') = Append(Live(queue), last'.arg)]_vars

C10_Witness ==
    \E k \in DOMAIN hist :
        /\ hist[k].op = "push" /\ hist[k].allocfail
        /\ Len(hist) = k + 3
        /\ hist[k + 1].op = "pop" /\ hist[k + 1].ret = 1
        /\ hist[k + 2].op = "push" /\ hist[k + 2].resized
        /\ hist[k + 3].op = "pop" /\ hist[k + 3].ret = 2
        /\ queue.size >= 1

\* the calls k .. j of hist are queue_pop calls
PopRun(k, j) == \A i \in k .. j : hist[i].op = "pop"

\* C14: drain terminates.  A consumer calls queue_pop repeatedly until it
\* returns NULL, no other call coming between.  When it starts on a queue
\* holding n elements, every call up to the n-th returns the next live
\* element in FIFO order and is not taken for the end, call n+1 returns
\* NULL and leaves size = 0, and there is no call n+2: the loop
\* terminates.  Stated of every run of pops k .. j of hist whose calls
\* before j returned an element.
C14_DrainTerminates ==
    \A k \in DOMAIN hist : \A j \in k .. Len(hist) :
        (PopRun(k, j) /\ \A i \in k .. j - 1 : hist[i].ret # NULL) =>
            LET live == FifoBefore(k)
                n == Len(live)
            IN  /\ j - k <= n
                /\ j - k < n =>
                       /\ hist[j].ret = live[j - k + 1]
                       /\ hist[j].ret # NULL
                /\ j - k = n =>
                       /\ hist[j].ret = NULL
                       /\ Len(Fifo(SubSeq(hist, 1, j))) = 0
                       /\ j = Len(hist) => queue.size = 0

(***************************************************************************)
(* queue_create under memory pressure: either malloc of queue_create may   *)
(* return NULL; the free callers then use the queue that was returned.     *)
(***************************************************************************)
InitCreate ==
    /\ init_capacity \in 1 .. MaxCap
    /\ \E header_ok \in BOOLEAN, content_ok \in BOOLEAN, trap \in BOOLEAN :
          LET r == queue_create_malloc(init_capacity, header_ok, content_ok,
                                       trap)
          IN  /\ queue = r.q
              /\ last = Call("create", init_capacity, r.ret, r.q, r.q,
                             ~header_ok \/ ~content_ok)
              /\ phase = IF r.outcome = "ok" THEN "free" ELSE r.outcome
    /\ hist = << >>
    /\ nresize = 0
    /\ nshrink = 0
    /\ drain = NoDrain
    /\ inst = COMPUTE_LIB_INSTANCE_NEW
    /\ heap = NoHeap

\* queue_push into a queue whose content is NULL: size < max_size, so the
\* element is stored through the NULL pointer
PushNullContent(trap) ==
    /\ phase = "nullcontent"
    /\ queue.size # queue.max_size
    /\ phase' = IF trap THEN "fault" ELSE "wild"
    /\ UNCHANGED <<queue, init_capacity, hist, last, nresize, nshrink,
                   drain, inst, heap>>

NextCreate ==
    \/ Next
    \/ \E trap \in BOOLEAN : PushNullContent(trap)

SpecCreate == InitCreate /\ [][NextCreate]_vars

\* C11: queue_create fails only on allocation failure and then signals it
\* to its caller: when the malloc of the queue_t or of the storage fails,
\* no queue is returned and nothing was accessed through the failed
\* allocation; when both succeed the queue returned has start_pos = 0,
\* size = 0, max_size = capacity and the default policy (min_size 16,
\* expansion 2.0, reduction 0.0).
C11_CreateSignalsFailure ==
    (last.op = "create") =>
        IF last.allocfail
        THEN /\ ~last.ret
             /\ phase \notin {"fault", "wild", "nullcontent"}
        ELSE /\ last.ret
             /\ phase = "free"
             /\ queue.start_pos = 0
             /\ queue.size = 0
             /\ queue.max_size = init_capacity
             /\ DOMAIN queue.content = 0 .. init_capacity - 1
             /\ queue.min_size = 16
             /\ queue.factor_expansion = [num |-> 2, den |-> 1]
             /\ queue.factor_reduction = [num |-> 0, den |-> 1]

(***************************************************************************)
(* compute_lib.c: the error queue of a library instance.  The queue_t of   *)
(* the instance is the variable queue; heap.queue_t tells whether it was   *)
(* created and whether queue_delete has freed it.  A compute_lib_error_t   *)
(* is the index of its entry in heap.errs, and its message buffer is       *)
(* allocated and freed with it.  An access through NULL or through a freed *)
(* pointer either traps ("fault") or lets the program go on ("wild");      *)
(* nothing is modelled after either, and the call that made the access is  *)
(* not recorded as returned.  The library never stores a policy            *)
(* into the error queue, so its reduction factor is 0.0 and the queue_pop  *)
(* of a flush never allocates.                                             *)
(***************************************************************************)
Invalid(trap) == IF trap THEN "fault" ELSE "wild"

\* inst->error_queue may be dereferenced
QueueValid(i, h) == i.error_queue # NULL /\ h.queue_t = "live"

\* the switch with a break after every case: a message passes only when
\* the verbosity names its own severity
severity_passes_no_fallthrough(severity, verbosity) ==
    CASE severity = GL_DEBUG_SEVERITY_HIGH ->
             verbosity = GL_DEBUG_SEVERITY_HIGH \/ verbosity = 1
      [] severity = GL_DEBUG_SEVERITY_MEDIUM ->
             verbosity = GL_DEBUG_SEVERITY_MEDIUM \/ verbosity = 2
      [] severity = GL_DEBUG_SEVERITY_LOW ->
             verbosity = GL_DEBUG_SEVERITY_LOW \/ verbosity = 3
      [] severity = GL_DEBUG_SEVERITY_NOTIFICATION ->
             verbosity = GL_DEBUG_SEVERITY_NOTIFICATION \/ verbosity = 4
      [] OTHER -> FALSE

\* the switch (severity) of compute_lib_gl_callback: TRUE when it leaves
\* the switch by a break, FALSE when it reaches default: return
severity_passes(severity, verbosity) ==
    LET high   == verbosity = GL_DEBUG_SEVERITY_HIGH \/ verbosity = 1
        medium == verbosity = GL_DEBUG_SEVERITY_MEDIUM \/ verbosity = 2
        low    == verbosity = GL_DEBUG_SEVERITY_LOW \/ verbosity = 3
        notif  == verbosity = GL_DEBUG_SEVERITY_NOTIFICATION \/ verbosity = 4
    IN  CASE severity = GL_DEBUG_SEVERITY_HIGH ->
                 high \/ medium \/ low \/ notif
          [] severity = GL_DEBUG_SEVERITY_MEDIUM -> medium \/ low \/ notif
          [] severity = GL_DEBUG_SEVERITY_LOW -> low \/ notif
          [] severity = GL_DEBUG_SEVERITY_NOTIFICATION -> notif
          [] OTHER -> FALSE

\* free(err->message); free(err);
free_error(h, err) ==
    [h EXCEPT !.errs[err].frees = @ + 1]

\* static void compute_lib_gl_callback(..., severity, ..., inst)
\* calloc_ok: the callocs of the record and of its message succeed;
\* alloc_ok: the malloc of a growth of the queue succeeds
compute_lib_gl_callback(i, h, q, severity, calloc_ok, alloc_ok, oor, trap) ==
    IF ~severity_passes(severity, i.verbosity)
    THEN [inst |-> i, heap |-> h, q |-> q, outcome |-> "ok"]
    ELSE IF ~calloc_ok
    THEN [inst |-> i, heap |-> h, q |-> q, outcome |-> Invalid(trap)]
    ELSE
        LET err == Len(h.errs) + 1
            h1  == [h EXCEPT !.errs =
                       Append(@, [err_id |-> i.error_total_cnt,
                                  frees |-> 0])]
        IN  IF ~QueueValid(i, h)
               \/ (q.content = NullContent /\ q.size # q.max_size)
            THEN [inst |-> i, heap |-> h, q |-> q, outcome |-> Invalid(trap)]
            ELSE [inst    |-> [i EXCEPT !.error_total_cnt = @ + 1,
                                        !.last_error = err],
                  heap    |-> h1,
                  q       |-> queue_push(q, err, alloc_ok, oor).q,
                  outcome |-> "ok"]

\* void queue_delete(queue_t* queue): the storage and the queue_t are freed
queue_delete(h) == [h EXCEPT !.queue_t = "deleted"]

\* the while loop of compute_lib_error_queue_flush: got are the records
\* popped so far (i is their number)
\* one evaluation of the guard inst->error_queue->size > 0 and, when it
\* holds, of the body: s holds the heap, the queue and the records popped
flush_step(s, alloc_ok) ==
    IF s.q.size > 0
    THEN LET r == queue_pop(s.q, alloc_ok)
         IN  [heap |-> free_error(s.heap, r.ret),
              q    |-> r.q,
              got  |-> Append(s.got, r.ret)]
    ELSE s

\* n such evaluations in a row, composed by halves (m is the state the
\* first half leaves): once the guard has failed the loop is left and the
\* further ones change nothing
RECURSIVE flush_steps(_, _, _)
flush_steps(s, n, alloc_ok) ==
    IF n = 0 THEN s
    ELSE IF n = 1 THEN flush_step(s, alloc_ok)
    ELSE CHOOSE t \in {flush_steps(m, n - n \div 2, alloc_ok) :
                           m \in {flush_steps(s, n \div 2, alloc_ok)}} : TRUE

\* the loop: it goes on for as long as the guard holds
RECURSIVE flush_loop(_, _, _, _)
flush_loop(h, q, got, alloc_ok) ==
    IF q.size > 0
    THEN LET s == flush_steps([heap |-> h, q |-> q, got |-> got], q.size,
                              alloc_ok)
         IN  flush_loop(s.heap, s.q, s.got, alloc_ok)
    ELSE [heap |-> h, q |-> q, ret |-> Len(got), got |-> got,
          outcome |-> "ok"]

\* a flush that stops one record short of emptying the queue
compute_lib_error_queue_flush_leave_one(i, h, q, alloc_ok, trap) ==
    IF ~QueueValid(i, h)
    THEN [heap |-> h, q |-> q, ret |-> 0, got |-> << >>,
          outcome |-> Invalid(trap)]
    ELSE IF q.size > 1
    THEN [flush_loop(h, [q EXCEPT !.size = @ - 1], << >>, alloc_ok)
             EXCEPT !.q.size = 1]
    ELSE [heap |-> h, q |-> q, ret |-> 0, got |-> << >>, outcome |-> "ok"]

\* GLuint compute_lib_error_queue_flush(compute_lib_instance_t* inst,
\*                                      FILE* out)
\* The fprintf to out changes nothing of the instance.
compute_lib_error_queue_flush(i, h, q, alloc_ok, trap) ==
    IF ~QueueValid(i, h)
    THEN [heap |-> h, q |-> q, ret |-> 0, got |-> << >>,
          outcome |-> Invalid(trap)]
    ELSE flush_loop(h, q, << >>, alloc_ok)

\* the end of compute_lib_deinit, f being the result of its flush:
\* queue_delete(inst->error_queue); inst->initialised = GL_FALSE;
\* inst->error_queue keeps pointing to the deleted queue
deinit_end(i, f) ==
    IF f.outcome # "ok"
    THEN [inst |-> i, heap |-> f.heap, q |-> f.q, ret |-> 0,
          got |-> f.got, outcome |-> f.outcome]
    ELSE [inst    |-> [i EXCEPT !.initialised = FALSE],
          heap    |-> queue_delete(f.heap),
          q       |-> f.q,
          ret     |-> 0,
          got     |-> f.got,
          outcome |-> "ok"]

\* void compute_lib_deinit(compute_lib_instance_t* inst)
compute_lib_deinit(i, h, q, alloc_ok, trap) ==
    deinit_end(i, compute_lib_error_queue_flush(i, h, q, alloc_ok, trap))

\* the end of a successful compute_lib_init, c being the result of its
\* queue_create
init_end(i, h, q, c) ==
    IF c.outcome \in {"fault", "wild"}
    THEN [inst |-> i, heap |-> h, q |-> q, got |-> << >>,
          ret |-> COMPUTE_LIB_ERROR_NO_ERROR, outcome |-> c.outcome]
    ELSE [inst    |-> [i EXCEPT !.error_queue = 1, !.initialised = TRUE],
          heap    |-> [h EXCEPT !.queue_t = "live"],
          q       |-> c.q,
          got     |-> << >>,
          ret     |-> COMPUTE_LIB_ERROR_NO_ERROR,
          outcome |-> "ok"]

\* GLuint compute_lib_init(compute_lib_instance_t* inst)
\* code: COMPUTE_LIB_ERROR_NO_ERROR when every step of the GPU set-up
\* succeeds, else the code of the step that fails
compute_lib_init(i, h, q, code, header_ok, content_ok, alloc_ok, trap) ==
    IF i.initialised
    THEN [inst |-> i, heap |-> h, q |-> q, got |-> << >>,
          ret |-> COMPUTE_LIB_ERROR_ALREADY_INITIALISED, outcome |-> "ok"]
    ELSE IF code # COMPUTE_LIB_ERROR_NO_ERROR
    THEN [compute_lib_deinit(i, h, q, alloc_ok, trap) EXCEPT !.ret = code]
    ELSE init_end([i EXCEPT !.last_error = 0, !.error_total_cnt = 0], h, q,
                  queue_create_malloc(ERROR_QUEUE_CAPACITY, header_ok,
                                      content_ok, trap))

\* the verbosity the caller stores into the instance, the severity of a
\* message (0: none of the four), the outcome of the GPU set-up
Verbosities == {0, 3}
Severities ==
    {GL_DEBUG_SEVERITY_HIGH, GL_DEBUG_SEVERITY_MEDIUM,
     GL_DEBUG_SEVERITY_LOW, GL_DEBUG_SEVERITY_NOTIFICATION, 0}
InitCodes ==
    {COMPUTE_LIB_ERROR_NO_ERROR, COMPUTE_LIB_ERROR_GPU_DRI_PATH,
     COMPUTE_LIB_ERROR_EGL_MAKE_CURRENT}

InitLib ==
    /\ \E v \in Verbosities :
          inst = [COMPUTE_LIB_INSTANCE_NEW EXCEPT !.verbosity = v]
    /\ heap = NoHeap
    /\ queue = NoQueue
    /\ init_capacity = ERROR_QUEUE_CAPACITY
    /\ last = Call("new", NULL, 0, queue, queue, FALSE)
    /\ hist = << >>
    /\ nresize = 0
    /\ nshrink = 0
    /\ phase = "lib"
    /\ drain = NoDrain

LibInit(code, header_ok, content_ok, trap) ==
    /\ phase = "lib"
    /\ \/ inst.initialised
       \/ heap.queue_t = "none"
       \/ Len(heap.errs) <= MaxReinit
    /\ \E r \in {compute_lib_init(inst, heap, queue, code, header_ok,
                                  content_ok, TRUE, trap)} :
          /\ inst' = r.inst
          /\ heap' = r.heap
          /\ queue' = r.q
          /\ phase' = IF r.outcome = "ok" THEN "lib" ELSE r.outcome
          /\ last' = IF r.outcome = "ok"
                     THEN Call("init", code, r.ret, r.q, r.q,
                               /\ ~inst.initialised
                               /\ code = COMPUTE_LIB_ERROR_NO_ERROR
                               /\ ~(header_ok /\ content_ok))
                     ELSE last
          /\ drain' = IF r.outcome = "ok" THEN NoDrain ELSE drain
    /\ UNCHANGED <<init_capacity, hist, nresize, nshrink>>

Capture(severity, calloc_ok, alloc_ok, oor, trap) ==
    /\ phase = "lib"
    /\ inst.initialised
    /\ Len(heap.errs) < MaxCaptures
    /\ \E r \in {compute_lib_gl_callback(inst, heap, queue, severity,
                                         calloc_ok, alloc_ok, oor, trap)} :
          /\ inst' = r.inst
          /\ heap' = r.heap
          /\ queue' = r.q
          /\ phase' = IF r.outcome = "ok" THEN "lib" ELSE r.outcome
          /\ last' = IF r.outcome = "ok"
                     THEN Call("callback", severity, 0, queue, r.q,
                               /\ severity_passes(severity, inst.verbosity)
                               /\ ~alloc_ok
                               /\ queue.size = queue.max_size
                               /\ queue_push(queue, 0, TRUE, oor).ret)
                     ELSE last
          /\ nresize' = IF r.q.max_size # queue.max_size
                        THEN nresize + 1 ELSE nresize
          /\ drain' = IF r.outcome = "ok" THEN NoDrain ELSE drain
    /\ UNCHANGED <<init_capacity, hist, nshrink>>

Flush(trap) ==
    /\ phase = "lib"
    /\ \E r \in {compute_lib_error_queue_flush(inst, heap, queue, TRUE,
                                               trap)} :
          /\ heap' = r.heap
          /\ queue' = r.q
          /\ phase' = IF r.outcome = "ok" THEN "lib" ELSE r.outcome
          /\ last' = IF r.outcome = "ok"
                     THEN Call("flush", NULL, r.ret, queue, r.q, FALSE)
                     ELSE last
          /\ drain' = IF r.outcome = "ok"
                      THEN [live |-> Live(queue), got |-> r.got,
                            calls |-> Len(r.got)]
                      ELSE drain
    /\ UNCHANGED <<init_capacity, hist, nresize, nshrink, inst>>

Deinit(trap) ==
    /\ phase = "lib"
    /\ \E r \in {compute_lib_deinit(inst, heap, queue, TRUE, trap)} :
          /\ inst' = r.inst
          /\ heap' = r.heap
          /\ queue' = r.q
          /\ phase' = IF r.outcome = "ok" THEN "lib" ELSE r.outcome
          /\ last' = IF r.outcome = "ok"
                     THEN Call("deinit", NULL, 0, queue, r.q, FALSE)
                     ELSE last
          /\ drain' = IF r.outcome = "ok"
                      THEN [live |-> Live(queue), got |-> r.got,
                            calls |-> Len(r.got)]
                      ELSE drain
    /\ UNCHANGED <<init_capacity, hist, nresize, nshrink>>

NextLib ==
    \/ \E code \in InitCodes, header_ok \in BOOLEAN, content_ok \in BOOLEAN,
          trap \in BOOLEAN :
          LibInit(code, header_ok, content_ok, trap)
    \/ \E severity \in Severities, calloc_ok \in BOOLEAN,
          alloc_ok \in BOOLEAN, oor \in OutOfRangeInts, trap \in BOOLEAN :
          Capture(severity, calloc_ok, alloc_ok, oor, trap)
    \/ \E trap \in BOOLEAN : Flush(trap)
    \/ \E trap \in BOOLEAN : Deinit(trap)

SpecLib == InitLib /\ [][NextLib]_vars

\* the records that were allocated and not freed
Allocated == {e \in DOMAIN heap.errs : heap.errs[e].frees = 0}

\* C16: compute_lib_error_queue_flush on an initialised instance empties
\* the error queue: it pops the records in the order they were captured,
\* with strictly increasing err_id, frees each of them exactly once,
\* returns the number of records that were queued when it was called and
\* leaves the queue with size 0.
C16_FlushEmpties ==
    (phase = "lib" /\ last.op = "flush" /\ inst.initialised) =>
        /\ queue.size = 0
        /\ last.ret = Len(drain.live)
        /\ drain.got = drain.live
        /\ \A k \in 1 .. Len(drain.got) - 1 :
              /\ drain.got[k] < drain.got[k + 1]
              /\ heap.errs[drain.got[k]].err_id
                    < heap.errs[drain.got[k + 1]].err_id
        /\ \A k \in DOMAIN drain.got :
              /\ drain.got[k] \in DOMAIN heap.errs
              /\ heap.errs[drain.got[k]].frees = 1
        /\ \A e \in DOMAIN heap.errs : heap.errs[e].frees <= 1

C16_Witness ==
    /\ phase = "lib"
    /\ last.op = "flush"
    /\ inst.initialised
    /\ last.ret = 65
    /\ queue.max_size = 128
    /\ queue.start_pos = 65
    /\ inst.error_total_cnt = 65

\* C17: teardown releases undrained elements.  After compute_lib_deinit on
\* an initialised instance no captured record remains allocated, the queue
\* was emptied and deleted, and the instance is marked uninitialised.
C17_DeinitFreesAll ==
    (phase = "lib" /\ last.op = "deinit") =>
        /\ Allocated = {}
        /\ queue.size = 0
        /\ heap.queue_t = "deleted"
        /\ ~inst.initialised

\* C12: queue_get is non-mutating.  A queue_get call, whatever its index,
\* leaves start_pos, size, max_size, the storage and the policy fields
\* unchanged, and with them what every later call returns.
C12_GetChangesNothing ==
    [][last'.op = "get"
       => /\ queue' = queue
          /\ Len(hist') = Len(hist)
          /\ <<nresize', nshrink'>> = <<nresize, nshrink>>]_vars

C12_Witness ==
    /\ last.op = "get"
    /\ last.arg = 0
    /\ last.ret = 3
    /\ queue.size = 2
    /\ queue.start_pos = 0
    /\ nshrink = 1

\* the arguments of the pushes that succeeded, in call order
RECURSIVE Pushed(_)
Pushed(h) ==
    IF h = << >> THEN << >>
    ELSE LET e == h[Len(h)]
             r == Pushed(SubSeq(h, 1, Len(h) - 1))
         IN  IF e.op = "push" /\ e.ret THEN Append(r, e.arg) ELSE r

\* the arguments of the pushes that failed
Rejected == {hist[k].arg : k \in {j \in PushCalls : ~hist[j].ret}}

\* what the pops of a non-empty queue returned, in call order
RECURSIVE Popped(_)
Popped(h) ==
    IF h = << >> THEN << >>
    ELSE LET e == h[Len(h)]
             f == SubSeq(h, 1, Len(h) - 1)
             r == Popped(f)
         IN  IF e.op = "pop" /\ Fifo(f) # << >> THEN Append(r, e.ret) ELSE r

Range(f) == {f[k] : k \in DOMAIN f}

\* C13: ownership conservation.  After any pushes and pops, with grows,
\* shrinks and failed allocations, the elements returned by pops followed
\* by the live elements are exactly the elements whose push succeeded, each
\* once and in push order; an element whose push failed is neither stored
\* nor returned.
C13_Conservation ==
    /\ Popped(hist) \o Live(queue) = Pushed(hist)
    /\ Cardinality(Range(Pushed(hist))) = Len(Pushed(hist))
    /\ Rejected \cap (Range(Popped(hist)) \cup Range(Live(queue))) = {}

C13_Witness ==
    /\ Len(Popped(hist)) = 2
    /\ queue.size = 2
    /\ Rejected # {}
    /\ \E k \in DOMAIN hist : hist[k].op = "push" /\ hist[k].resized
    /\ \E k \in DOMAIN hist : hist[k].op = "pop" /\ hist[k].resized
    /\ \E k \in DOMAIN hist : hist[k].op = "pop" /\ hist[k].allocfail

\* C15: monotonic capacity.  While the reduction factor is 0.0, queue_pop
\* never resizes and no call decreases max_size.
C15_NoShrinkAtZero ==
    [][(queue.factor_reduction.num = 0 /\ last'.op \in {"push", "pop", "get"})
       => /\ queue'.max_size >= queue.max_size
          /\ last'.op = "pop" => (~last'.resized /\ ~last'.allocfail)]_vars

C15_Witness ==
    /\ queue.factor_reduction = QUEUE_DEFAULT_FACTOR_REDUCTION
    /\ queue.min_size = 0
    /\ last.op = "pop"
    /\ queue.size = 0
    /\ queue.max_size = 4
    /\ init_capacity = 1

\* C18: the queue refines an abstract FIFO sequence.  In every reachable
\* state the live window content[(start_pos + i) % max_size], i in
\* [0, size), is the abstract sequence; every pop returned the abstract
\* head (NULL from the empty sequence) and a get returns the abstract i-th
\* element (NULL outside it).
C18_RefinesFifo ==
    /\ queue.size = Len(Fifo(hist))
    /\ \A i \in 0 .. queue.size - 1 :
          queue.content[(queue.start_pos + i) % queue.max_size]
              = Fifo(hist)[i + 1]
    /\ PopsFifo
    /\ last.op = "get" =>
          last.ret = (IF last.arg \in 0 .. Len(Fifo(hist)) - 1
                      THEN Fifo(hist)[last.arg + 1] ELSE NULL)

C18_Witness ==
    /\ last.op = "push" /\ last.resized
    /\ \E k \in DOMAIN hist : hist[k].op = "pop" /\ hist[k].resized
    /\ \E k \in DOMAIN hist : hist[k].allocfail
    /\ \E k \in DOMAIN hist :
          /\ hist[k].op = "push" /\ hist[k].resized
          /\ k < Len(hist)
          /\ Len(FifoBefore(k)) >= 2
          /\ Head(FifoBefore(k)) # 1
    /\ queue.size >= 2

\* C19: growth rule.  A queue_push into a full queue computes
\* new_capacity = floor(size * factor_expansion), taken here for the sizes
\* whose product is an int.  When new_capacity <= max_size the push fails
\* without allocating and changes nothing, also for a factor above 1.0
\* (capacity 1, factor 1.5).  Otherwise, memory permitting, the storage is
\* resized to exactly new_capacity and the element is inserted; with
\* factor 2.0 max_size doubles.  When the allocation fails the push fails
\* and changes nothing.
C19_GrowthRule ==
    [][(/\ Len(hist') # Len(hist)
        /\ last'.op = "push"
        /\ queue.size = queue.max_size
        /\ queue.size <= INT_MAX \div queue.factor_expansion.num)
       => LET new_capacity ==
                  (queue.size * queue.factor_expansion.num)
                      \div queue.factor_expansion.den
          IN  IF new_capacity <= queue.max_size
              THEN ~last'.ret /\ ~last'.allocfail /\ queue' = queue
              ELSE IF last'.allocfail
              THEN ~last'.ret /\ queue' = queue
              ELSE /\ last'.ret
                   /\ last'.resized
                   /\ queue'.max_size = new_capacity
                   /\ queue'.size = queue.size + 1
                   /\ queue.factor_expansion = QUEUE_DEFAULT_FACTOR_EXPANSION
                          => queue'.max_size = 2 * queue.max_size]_vars

\* C20: shrink rule.  A queue_pop of a non-empty queue in which no
\* allocation fails leaves size one less and resizes the storage if and
\* only if the new size >= min_size and new size / max_size <
\* factor_reduction.  When it
\* resizes, max_size becomes the new size and start_pos 0, so max_size is
\* neither below min_size nor below the number of live elements; otherwise
\* max_size is unchanged and start_pos has advanced by one modulo max_size.
\* The ratio is compared for the sizes whose products are ints.
C20_ShrinkRule ==
    [][(/\ Len(hist') # Len(hist)
        /\ last'.op = "pop"
        /\ queue.size > 0
        /\ ~last'.allocfail
        /\ queue.size <= INT_MAX \div queue.factor_reduction.den)
       => LET new_size == queue.size - 1
              wanted ==
                  /\ new_size >= queue.min_size
                  /\ new_size * queue.factor_reduction.den
                        < queue.factor_reduction.num * queue.max_size
          IN  /\ queue'.size = new_size
              /\ last'.resized <=> wanted
              /\ IF last'.resized
                 THEN /\ queue'.max_size = new_size
                      /\ queue'.start_pos = 0
                      /\ queue'.max_size >= queue.min_size
                      /\ queue'.max_size >= queue'.size
                 ELSE /\ queue'.max_size = queue.max_size
                      /\ queue'.start_pos
                           = (queue.start_pos + 1) % queue.max_size]_vars

(***************************************************************************)
(* Claims C21 .. C30                                                       *)
(***************************************************************************)
\* the capacities queue_resize is applied to in a state: every one that
\* holds the live elements, up to MaxCap slots more than that
ResizeCaps == queue.size .. queue.size + MaxCap

\* C21: a successful queue_resize linearizes the ring.  Applied to any
\* reachable queue with a new capacity of at least size, it returns true,
\* leaves size unchanged, sets start_pos to 0 and max_size to the new
\* capacity, and slot i of the new storage holds what slot
\* (start_pos + i) mod max_size of the old storage held, for every
\* 0 <= i < size, whether the old window was contiguous or wrapped.
C21_ResizeLinearizes ==
    phase = "free" =>
        \A nc \in ResizeCaps :
            LET r == queue_resize(queue, nc, TRUE)
            IN  /\ r.ret = TRUE
                /\ r.q.size = queue.size
                /\ r.q.start_pos = 0
                /\ r.q.max_size = nc
                /\ DOMAIN r.q.content = 0 .. nc - 1
                /\ \A i \in 0 .. queue.size - 1 :
                       r.q.content[i] =
                           queue.content[(queue.start_pos + i)
                                         % queue.max_size]

\* a push has just grown a full queue whose window was wrapped: 2 and 3
\* sat in slots 1 and 0 of a storage of two slots
C21_Witness ==
    /\ phase = "free"
    /\ init_capacity = 2
    /\ Len(hist) = 5
    /\ hist[3].op = "pop"
    /\ last.op = "push"
    /\ last.resized
    /\ queue.max_size = 4
    /\ queue.start_pos = 0
    /\ Live(queue) = <<2, 3, 4>>

\* the slots of the live window of q
Window(q) == {(q.start_pos + i) % q.max_size : i \in 0 .. q.size - 1}

\* the live slots are pairwise distinct slots of the storage, and no call
\* reads a slot outside the live window or outside [0, max_size)
WindowSound ==
    /\ \A i, j \in 0 .. queue.size - 1 :
           i # j => (queue.start_pos + i) % queue.max_size
                    # (queue.start_pos + j) % queue.max_size
    /\ Window(queue) \subseteq 0 .. queue.max_size - 1
    /\ \A alloc_ok \in BOOLEAN :
           /\ \A oor \in OutOfRangeInts :
                  queue_push_reads(queue, alloc_ok, oor)
                      \subseteq Window(queue)
           /\ queue_pop_reads(queue, alloc_ok) \subseteq Window(queue)
           /\ queue_resize_reads(queue, alloc_ok) \subseteq Window(queue)
    /\ \A i \in -1 .. queue.size + 1 :
           queue_get_reads(queue, i) \subseteq Window(queue)

\* C22: in every reachable state 0 <= start_pos < max_size, the live slots
\* are pairwise distinct, and no operation reads a slot outside the live
\* window or outside [0, max_size).  A queue whose min_size is 0 and whose
\* reduction factor is not 0.0 shrinks to a storage of 0 slots when it is
\* emptied: there start_pos = 0 = max_size.
C22_StartBelowCapacity ==
    phase = "free" =>
        /\ 0 <= queue.start_pos
        /\ queue.start_pos < queue.max_size
        /\ WindowSound

\* a queue_pop of q would shrink the storage if its allocation succeeded
ShrinkDue(q) == queue_pop(q, TRUE).q.max_size # q.max_size

\* C23: a failed shrink is harmless.  When the malloc of the resize that a
\* queue_pop triggers fails, the pop still returns the former head, size
\* is one less, start_pos has advanced by one modulo the unchanged
\* max_size, the storage and the policy are untouched and the remaining
\* elements are the former ones without the head, in order.
C23_FailedShrinkHarmless ==
    /\ (phase = "free" /\ last.op = "pop" /\ last.allocfail) =>
           /\ ~last.resized
           /\ last.ret = Head(FifoBefore(Len(hist)))
           /\ Consistent
    /\ (phase = "free" /\ queue.size > 0 /\ ShrinkDue(queue)) =>
           LET r == queue_pop(queue, FALSE)
           IN  /\ r.ret = Head(Live(queue))
               /\ r.q.size = queue.size - 1
               /\ r.q.max_size = queue.max_size
               /\ r.q.start_pos = (queue.start_pos + 1) % queue.max_size
               /\ r.q.content = queue.content
               /\ r.q.min_size = queue.min_size
               /\ r.q.factor_expansion = queue.factor_expansion
               /\ r.q.factor_reduction = queue.factor_reduction
               /\ Live(r.q) = Tail(Live(queue))

\* two pops whose shrink failed, the second one moving start_pos from the
\* last slot back to slot 0, with element 3 left in the queue
C23_Witness ==
    /\ phase = "free"
    /\ init_capacity = 2
    /\ Len(hist) = 5
    /\ hist[3].op = "pop" /\ hist[3].allocfail
    /\ last.op = "pop" /\ last.allocfail
    /\ last.ret = 2
    /\ queue.max_size = 2
    /\ queue.start_pos = 0
    /\ Live(queue) = <<3>>

\* C26: a queue created with capacity >= 1 whose min_size is >= 1 has
\* max_size >= 1 in every reachable state, after any grows, shrinks and
\* failed allocations: the storage has at least one slot, so the indices
\* computed modulo max_size by queue_push, queue_pop and queue_get are
\* defined, and the capacity never drops to 0.
C26_CapacityStaysPositive ==
    (phase = "free" /\ init_capacity >= 1 /\ queue.min_size >= 1) =>
        /\ queue.max_size >= 1
        /\ DOMAIN queue.content = 0 .. queue.max_size - 1
        /\ queue.start_pos \in 0 .. queue.max_size - 1
        /\ (queue.start_pos + queue.size) % queue.max_size
               \in DOMAIN queue.content

\* a queue of four slots with min_size 1 was shrunk to one slot by a pop
\* and then emptied: one slot is left
C26_Witness ==
    /\ phase = "free"
    /\ init_capacity = 4
    /\ queue.min_size = 1
    /\ nshrink = 1
    /\ last.op = "pop"
    /\ ~last.resized
    /\ queue.size = 0
    /\ queue.max_size = 1

\* C27: under the default policy (expansion factor 2.0) and an initial
\* capacity >= 1, queue_push fails only when an allocation fails.  Every
\* push either returns true or has its malloc fail, whatever pushes and
\* pops came before; a push whose allocation succeeds makes size one more,
\* and a push that fails was made into a full queue and changes nothing.
C27_PushFailsOnlyOnAlloc ==
    [][(/\ DefaultPolicy
        /\ init_capacity >= 1
        /\ Len(hist') # Len(hist)
        /\ last'.op = "push")
       => /\ last'.ret \/ last'.allocfail
          /\ ~last'.allocfail => queue'.size = queue.size + 1
          /\ ~last'.ret =>
                 queue.size = queue.max_size /\ queue' = queue]_vars

(***************************************************************************)
(* Callers that also push a null pointer.  queue_push stores whatever      *)
(* pointer it is given, NULL included; the policy is left at its defaults. *)
(***************************************************************************)
PushNull(alloc_ok, oor) ==
    /\ phase = "free"
    /\ Len(hist) < MaxOps
    /\ LET data == NULL
           r == queue_push(queue, data, alloc_ok, oor)
           c == Call("push", data, r.ret, queue, r.q,
                     ~alloc_ok /\ queue_push(queue, data, TRUE,
                                                oor).q.max_size
                                     # queue.max_size)
       IN  /\ queue' = r.q
           /\ last' = c
           /\ hist' = Append(hist, c)
           /\ nresize' = IF c.resized THEN nresize + 1 ELSE nresize
    /\ UNCHANGED <<init_capacity, nshrink, phase,
                 drain, inst, heap>>

NextNull ==
    \/ \E alloc_ok \in BOOLEAN, oor \in Conversions(queue) :
          PushNull(alloc_ok, oor)
    \/ \E alloc_ok \in BOOLEAN, oor \in Conversions(queue) :
          Push(alloc_ok, oor)
    \/ \E alloc_ok \in BOOLEAN : Pop(alloc_ok)
    \/ \E i \in -1 .. queue.size + 1 : Get(i)

SpecNull == Init /\ [][NextNull]_vars

\* C28: a NULL result is unambiguous.  queue_pop returns NULL exactly when
\* the queue was empty before the call, and queue_get(q, i) returns NULL
\* exactly when i is outside [0, size), for every element queue_push
\* accepts, a null pointer included.  queue_push accepts NULL and stores
\* it, so a pop or a get of that element returns NULL from a queue that
\* was not empty, for an index that is valid.
C28_NullMeansEmpty ==
    phase = "free" =>
        /\ \A k \in DOMAIN hist :
               hist[k].op = "pop" =>
                   (hist[k].ret = NULL <=> FifoBefore(k) = << >>)
        /\ last.op = "get" =>
               (last.ret = NULL <=> last.arg \notin 0 .. queue.size - 1)

(***************************************************************************)
(* The library with every verbosity the header documents: 0 .. 4 and the   *)
(* four GL severities, and a few captured messages.                        *)
(***************************************************************************)
MaxFilterCaptures == 2

FilterVerbosities ==
    0 .. 4 \cup {GL_DEBUG_SEVERITY_HIGH, GL_DEBUG_SEVERITY_MEDIUM,
                 GL_DEBUG_SEVERITY_LOW, GL_DEBUG_SEVERITY_NOTIFICATION}

InitFilter ==
    /\ \E v \in FilterVerbosities :
          inst = [COMPUTE_LIB_INSTANCE_NEW EXCEPT !.verbosity = v]
    /\ heap = NoHeap
    /\ queue = NoQueue
    /\ init_capacity = ERROR_QUEUE_CAPACITY
    /\ last = Call("new", NULL, 0, queue, queue, FALSE)
    /\ hist = << >>
    /\ nresize = 0
    /\ nshrink = 0
    /\ phase = "lib"
    /\ drain = NoDrain

FilterCapture(severity, calloc_ok, alloc_ok, oor, trap) ==
    /\ Len(heap.errs) < MaxFilterCaptures
    /\ Capture(severity, calloc_ok, alloc_ok, oor, trap)

NextFilter ==
    \/ \E code \in InitCodes, header_ok \in BOOLEAN, content_ok \in BOOLEAN,
          trap \in BOOLEAN :
          LibInit(code, header_ok, content_ok, trap)
    \/ \E severity \in Severities, calloc_ok \in BOOLEAN,
          alloc_ok \in BOOLEAN, oor \in OutOfRangeInts, trap \in BOOLEAN :
          FilterCapture(severity, calloc_ok, alloc_ok, oor, trap)
    \/ \E trap \in BOOLEAN : Flush(trap)
    \/ \E trap \in BOOLEAN : Deinit(trap)

SpecFilter == InitFilter /\ [][NextFilter]_vars

\* how severe a message is, 1 for the most severe, and the least severe
\* rank a verbosity lets through; 0 lets nothing through
SeverityRank(severity) ==
    CASE severity = GL_DEBUG_SEVERITY_HIGH -> 1
      [] severity = GL_DEBUG_SEVERITY_MEDIUM -> 2
      [] severity = GL_DEBUG_SEVERITY_LOW -> 3
      [] severity = GL_DEBUG_SEVERITY_NOTIFICATION -> 4
      [] OTHER -> 5
Threshold(verbosity) ==
    IF verbosity \in 0 .. 4 THEN verbosity ELSE SeverityRank(verbosity)
Recorded(severity, verbosity) ==
    /\ SeverityRank(severity) \in 1 .. 4
    /\ SeverityRank(severity) <= Threshold(verbosity)

\* C24: the verbosity filter of the diagnostic callback.  On an initialised
\* instance whose queue was created, and memory permitting, a message of
\* severity S is appended to the error queue (and counted, and made
\* last_error) if and only if S is HIGH, MEDIUM, LOW or NOTIFICATION and is
\* at least as severe as the verbosity: HIGH/1 records HIGH only, MEDIUM/2
\* HIGH and MEDIUM, LOW/3 HIGH, MEDIUM and LOW, NOTIFICATION/4 all four.
\* With verbosity 0 nothing is ever recorded, and a dropped message
\* changes neither the queue, error_total_cnt nor last_error, whether
\* memory is available or not.
C24_VerbosityFilter ==
    /\ (phase = "lib" /\ inst.verbosity = 0) =>
           /\ heap.errs = << >>
           /\ inst.error_total_cnt = 0
           /\ inst.last_error = NULL
    /\ (phase = "lib" /\ inst.initialised /\ queue.content # NullContent) =>
           \A severity \in Severities :
               IF Recorded(severity, inst.verbosity)
               THEN LET r == compute_lib_gl_callback(inst, heap, queue,
                                                     severity, TRUE, TRUE,
                                                     INT_MIN, TRUE)
                        err == Len(heap.errs) + 1
                    IN  /\ r.outcome = "ok"
                        /\ Live(r.q) = Append(Live(queue), err)
                        /\ r.inst.error_total_cnt
                               = inst.error_total_cnt + 1
                        /\ r.inst.last_error = err
               ELSE \A calloc_ok \in BOOLEAN, alloc_ok \in BOOLEAN,
                       oor \in OutOfRangeInts, trap \in BOOLEAN :
                        LET r == compute_lib_gl_callback(inst, heap, queue,
                                                         severity, calloc_ok,
                                                         alloc_ok, oor, trap)
                        IN  /\ r.outcome = "ok"
                            /\ r.q = queue
                            /\ r.inst = inst
                            /\ r.heap = heap
    /\ (phase = "lib" /\ last.op = "callback" /\ ~last.allocfail
           /\ Recorded(last.arg, inst.verbosity)) =>
           /\ inst.last_error = Len(heap.errs)
           /\ queue.size >= 1
           /\ Live(queue)[queue.size] = Len(heap.errs)

\* verbosity MEDIUM: one message was recorded and the last one, of
\* severity LOW, was dropped
C24_Witness ==
    /\ phase = "lib"
    /\ inst.initialised
    /\ inst.verbosity = GL_DEBUG_SEVERITY_MEDIUM
    /\ last.op = "callback"
    /\ last.arg = GL_DEBUG_SEVERITY_LOW
    /\ Len(heap.errs) = 1
    /\ inst.error_total_cnt = 1
    /\ inst.last_error = 1
    /\ Live(queue) = <<1>>

\* C25: the error queue is accessed only while it is live.  In every state
\* the library can be in, a compute_lib_error_queue_flush, a
\* compute_lib_deinit and a compute_lib_init whose GPU set-up fails
\* dereference inst->error_queue only when it points to a queue that a
\* successful init created and no deinit has deleted.  The three functions
\* dereference it without a test: on an instance that was never
\* initialised it is NULL, after a deinit it points to the deleted queue.
C25_QueueAccessedWhileLive ==
    phase = "lib" =>
        \A trap \in BOOLEAN :
            /\ compute_lib_error_queue_flush(inst, heap, queue, TRUE,
                                             trap).outcome = "ok"
            /\ compute_lib_deinit(inst, heap, queue, TRUE,
                                  trap).outcome = "ok"
            /\ \A code \in InitCodes \ {COMPUTE_LIB_ERROR_NO_ERROR} :
                   compute_lib_init(inst, heap, queue, code, TRUE, TRUE,
                                    TRUE, trap).outcome = "ok"

\* the records captured since the last successful compute_lib_init: the
\* newest error_total_cnt records of the heap
SinceInit ==
    {e \in DOMAIN heap.errs : e > Len(heap.errs) - inst.error_total_cnt}

\* C29: every captured record is accounted for.  On an initialised
\* instance error_total_cnt equals the number of records flushed since the
\* init plus the current size of the queue, and every record captured
\* since the init and not yet flushed is held by the queue, also when a
\* queue_push made by the callback failed.  The callback ignores the
\* result of queue_push: a record whose push failed is counted and stays
\* allocated, but is in no queue.
C29_EveryRecordAccounted ==
    (phase = "lib" /\ inst.initialised) =>
        /\ inst.error_total_cnt
               = Cardinality({e \in SinceInit : heap.errs[e].frees >= 1})
                 + queue.size
        /\ \A e \in SinceInit :
               heap.errs[e].frees = 0 => e \in Range(Live(queue))
        /\ \A e \in Range(Live(queue)) :
               e \in SinceInit /\ heap.errs[e].frees = 0

\* C30: last_error never dangles.  In every state it is NULL or points to
\* the most recently captured record, which has not been freed.  A flush
\* and a deinit free every queued record, the one last_error points to
\* included, and leave last_error as it was.
C30_LastErrorNeverDangles ==
    phase = "lib" =>
        \/ inst.last_error = NULL
        \/ /\ inst.last_error = Len(heap.errs)
           /\ heap.errs[inst.last_error].frees = 0

====
